---- MODULE Spec2Model ----
(***************************************************************************)
(* graphlib2: an incremental topological sorter.                           *)
(*                                                                         *)
(* src/python/graphlib2/__init__.py is the Python class TopologicalSorter, *)
(* a thin object that forwards every method to an engine object held in   *)
(* its slot _ts and created from the extension module .graphlib2.  The     *)
(* engine's own code is not part of src/; its operations (the ts_*         *)
(* definitions below) follow spec.md sections 3, 4 and 7.  The wrapper     *)
(* (the lower-case definitions add, get_ready, done, ... and the actions)  *)
(* follows the Python source line by line.                                 *)
(*                                                                         *)
(* Python objects are references: the heap `engines` holds the engine      *)
(* objects, `factories` the _DefaultNodeIdFactory objects, and `ts` is the *)
(* _ts slot of each TopologicalSorter object.                              *)
(***************************************************************************)
EXTENDS Integers, Sequences, FiniteSets, TLC

\* ---------------------------------------------------------------- bounds
\* Node identities the caller may use.
NodeOrder == <<"A", "B", "C">>
Nodes == {NodeOrder[i] : i \in 1..Len(NodeOrder)}
\* Successful add calls per behaviour.
MaxAdds == 2
\* Predecessors named in one add call.
MaxPreds == 2
\* Nodes named in one done / remove_nodes call.
MaxArgs == 2
\* In a run with a clone: successful add calls, and calls that change
\* something.
MaxForkAdds == 1
MaxCalls == 4
\* In a run that watches the order of the ready queue: successful add calls.
MaxQueueAdds == 3

\* ---------------------------------------------------------------- heap
Wrappers == {"orig", "clone"}
EngineRefs == {1, 2}

VARIABLES
    ts,         \* the _ts slot of each existing sorter: sorter -> engine reference
    engines,    \* the engine objects: reference -> engine record
    factories,  \* the id factory objects: reference -> current_count
    last,       \* what the last call that returned gave back to the caller
    seen,       \* per sorter, what its caller did and saw: the nodes and edges it
                \* added, the nodes it removed, how often each node was handed out
    nadds,      \* successful add calls so far
    ncalls,     \* calls that changed something, in the runs that count them
    pending     \* in a run that drives a clone like the original: the call the
                \* original just answered and the clone has yet to be given

\* The program's objects and what the caller has seen of them.
prog == <<ts, engines, factories, last, seen>>

vars == <<ts, engines, factories, last, seen, nadds, ncalls, pending>>

\* ------------------------------------------------------------ sequences
Range(s) == {s[i] : i \in 1..Len(s)}

IndexOf(s, x) == CHOOSE i \in 1..Len(s) : s[i] = x

Without(s, x) == SelectSeq(s, LAMBDA y : y # x)

SeqsUpTo(S, n) == UNION {[1..k -> S] : k \in 0..n}

\* --------------------------------------------------- _DefaultNodeIdFactory
\* __init__: current_count = 0
FactoryInit == 0

\* __call__ without the increment.
FactoryCall_NoIncrement(count) == [res |-> count, count |-> count]

\* __call__: returns current_count and increments it
FactoryCall(count) == [res |-> count, count |-> count + 1]

\* ------------------------------------------------------------ the engine
NodeStates == {"UNKNOWN", "NEW", "READY", "PROCESSING", "DONE", "REMOVED"}

\* A new engine: no node registered, stage BUILDING, ids drawn from factory f.
ts_new(f) ==
    [node2id |-> << >>,
     state |-> [n \in Nodes |-> "UNKNOWN"],
     indegree |-> [n \in Nodes |-> 0],
     preds |-> [n \in Nodes |-> {}],
     successors |-> [n \in Nodes |-> <<>>],
     ready |-> <<>>,
     stage |-> "BUILDING",
     node_id_factory |-> f]

Registered(e) == DOMAIN e.node2id

\* A result of an engine call: the engine after it, the factory count after
\* it, the outcome, the returned sequence and the returned boolean.
Result(e, c, res, out, flag) ==
    [eng |-> e, count |-> c, res |-> res, out |-> out, flag |-> flag]

\* Node Registry, intern: the id of a seen identity, or a new node in state
\* NEW whose id is the next value of the id factory.
intern(e, c, n) ==
    IF n \in Registered(e)
    THEN [eng |-> e, count |-> c]
    ELSE LET f == FactoryCall(c)
         IN  [eng |-> [e EXCEPT !.node2id = (n :> f.res) @@ @,
                                !.state[n] = "NEW"],
              count |-> f.count]

\* Node Registry, get_ids(nodes...): a lookup; fails on an identity that was
\* never added.
ts_get_ids(e, c, nodes) ==
    IF \E i \in 1..Len(nodes) : nodes[i] \notin Registered(e)
    THEN Result(e, c, "UnknownIdentity", <<>>, FALSE)
    ELSE Result(e, c, "ok", [i \in 1..Len(nodes) |-> e.node2id[nodes[i]]], FALSE)

\* One edge p -> n: p joins n's predecessor set if it is not there yet, n's
\* indegree counts it while p is still counted (not REMOVED), and n is
\* appended to p's successor list.
AddEdge(e, n, p) ==
    IF p \in e.preds[n]
    THEN e
    ELSE [e EXCEPT !.preds[n] = @ \cup {p},
                   !.indegree[n] = IF e.state[p] = "REMOVED" THEN @ ELSE @ + 1,
                   !.successors[p] = Append(@, n)]

RECURSIVE AddPreds(_, _, _, _, _)
AddPreds(e, c, n, predecessors, i) ==
    IF i > Len(predecessors)
    THEN [eng |-> e, count |-> c]
    ELSE LET r == intern(e, c, predecessors[i])
         IN  AddPreds(AddEdge(r.eng, n, predecessors[i]), r.count, n,
                      predecessors, i + 1)

\* Dependency Graph, add(node, predecessors...)
ts_add(e, c, node, predecessors) ==
    IF e.stage # "BUILDING"
    THEN Result(e, c, "ProtocolMisuse", <<>>, FALSE)
    ELSE LET r == intern(e, c, node)
             s == AddPreds(r.eng, r.count, node, predecessors, 1)
         IN  Result(s.eng, s.count, "ok", <<>>, FALSE)

\* ------------------------------------------------------- cycle detector
\* The registered nodes in ascending id order.
RECURSIVE ById(_, _)
ById(e, S) ==
    IF S = {}
    THEN <<>>
    ELSE LET m == CHOOSE n \in S : \A o \in S : e.node2id[n] <= e.node2id[o]
         IN  <<m>> \o ById(e, S \ {m})

\* Depth-first traversal with colouring: `stack` holds the in-progress nodes
\* (the current node last), `finished` the finished ones.  An edge back into
\* an in-progress node c reports the stack from c on, closed by c.  An edge
\* into a REMOVED node is a no-op.
RECURSIVE DfsChildren(_, _, _, _, _)
DfsChildren(e, n, i, stack, finished) ==
    IF i > Len(e.successors[n])
    THEN [cycle |-> <<>>, finished |-> finished \cup {n}]
    ELSE LET c == e.successors[n][i]
         IN  IF e.state[c] = "REMOVED" \/ c \in finished
             THEN DfsChildren(e, n, i + 1, stack, finished)
             ELSE IF c \in Range(stack)
             THEN [cycle |-> SubSeq(stack, IndexOf(stack, c), Len(stack)) \o <<c>>,
                   finished |-> finished]
             ELSE LET r == DfsChildren(e, c, 1, Append(stack, c), finished)
                  IN  IF r.cycle # <<>>
                      THEN r
                      ELSE DfsChildren(e, n, i + 1, stack, r.finished)

RECURSIVE DfsRoots(_, _, _, _)
DfsRoots(e, order, i, finished) ==
    IF i > Len(order)
    THEN <<>>
    ELSE IF e.state[order[i]] = "REMOVED" \/ order[i] \in finished
    THEN DfsRoots(e, order, i + 1, finished)
    ELSE LET r == DfsChildren(e, order[i], 1, <<order[i]>>, finished)
         IN  IF r.cycle # <<>>
             THEN r.cycle
             ELSE DfsRoots(e, order, i + 1, r.finished)

\* The first cycle found, or <<>>.
find_cycle(e) == DfsRoots(e, ById(e, Registered(e)), 1, {})

\* ----------------------------------------------------- ready-set driver
\* prepare(): fails outside BUILDING and on a cycle; otherwise every
\* non-removed node of indegree 0 becomes READY and joins the ready queue in
\* ascending id order.
ts_prepare(e, c) ==
    IF e.stage # "BUILDING"
    THEN Result(e, c, "ProtocolMisuse", <<>>, FALSE)
    ELSE LET cycle == find_cycle(e)
             zero == SelectSeq(ById(e, Registered(e)),
                               LAMBDA n : e.state[n] = "NEW" /\ e.indegree[n] = 0)
         IN  IF cycle # <<>>
             THEN Result(e, c, "CycleError", cycle, FALSE)
             ELSE Result([e EXCEPT !.stage = "RUNNING",
                                   !.ready = zero,
                                   !.state = [n \in Nodes |->
                                       IF n \in Range(zero) THEN "READY" ELSE @[n]]],
                         c, "ok", <<>>, FALSE)

\* get_ready(): fails before prepare; otherwise hands out the whole ready
\* queue in queue order, each node becoming PROCESSING.
ts_get_ready(e, c) ==
    IF e.stage # "RUNNING"
    THEN Result(e, c, "ProtocolMisuse", <<>>, FALSE)
    ELSE Result([e EXCEPT !.ready = <<>>,
                          !.state = [n \in Nodes |->
                              IF n \in Range(e.ready) THEN "PROCESSING" ELSE @[n]]],
                c, "ok", e.ready, FALSE)

\* is_active(): true while some registered node is neither DONE nor REMOVED.
ts_is_active(e, c) ==
    Result(e, c, "ok", <<>>,
           \E n \in Registered(e) : e.state[n] \notin {"DONE", "REMOVED"})

\* The edges out of node n stop counting: every successor's indegree drops
\* by one, in successor insertion order; while RUNNING a NEW successor that
\* reaches 0 becomes READY and is appended to the ready queue.
RECURSIVE Release(_, _, _)
Release(e, n, i) ==
    IF i > Len(e.successors[n])
    THEN e
    ELSE LET s == e.successors[n][i]
             d == e.indegree[s] - 1
             promote == d = 0 /\ e.state[s] = "NEW" /\ e.stage = "RUNNING"
         IN  Release([e EXCEPT !.indegree[s] = d,
                               !.state[s] = IF promote THEN "READY" ELSE @,
                               !.ready = IF promote THEN Append(@, s) ELSE @],
                     n, i + 1)

\* done of one node: it must be PROCESSING.
DoneOne(e, n) ==
    IF n \notin Registered(e)
    THEN [eng |-> e, res |-> "UnknownIdentity"]
    ELSE IF e.state[n] # "PROCESSING"
    THEN [eng |-> e, res |-> "ProtocolMisuse"]
    ELSE [eng |-> Release([e EXCEPT !.state[n] = "DONE"], n, 1), res |-> "ok"]

\* remove of one node: it must be NEW or READY; a READY node leaves the
\* ready queue first.
RemoveOne(e, n) ==
    IF n \notin Registered(e)
    THEN [eng |-> e, res |-> "UnknownIdentity"]
    ELSE IF e.state[n] \notin {"NEW", "READY"}
    THEN [eng |-> e, res |-> "ProtocolMisuse"]
    ELSE [eng |-> Release([e EXCEPT !.state[n] = "REMOVED",
                                    !.ready = Without(@, n)], n, 1),
          res |-> "ok"]

\* The nodes of one call in argument order, stopping at the first failure.
RECURSIVE DoneEach(_, _, _)
DoneEach(e, nodes, i) ==
    IF i > Len(nodes)
    THEN [eng |-> e, res |-> "ok"]
    ELSE LET r == DoneOne(e, nodes[i])
         IN  IF r.res # "ok" THEN r ELSE DoneEach(r.eng, nodes, i + 1)

RECURSIVE RemoveEach(_, _, _)
RemoveEach(e, nodes, i) ==
    IF i > Len(nodes)
    THEN [eng |-> e, res |-> "ok"]
    ELSE LET r == RemoveOne(e, nodes[i])
         IN  IF r.res # "ok" THEN r ELSE RemoveEach(r.eng, nodes, i + 1)

\* done(nodes...): fails before prepare; a failure on any node commits
\* nothing.
ts_done(e, c, nodes) ==
    IF e.stage # "RUNNING"
    THEN Result(e, c, "ProtocolMisuse", <<>>, FALSE)
    ELSE LET r == DoneEach(e, nodes, 1)
         IN  IF r.res = "ok"
             THEN Result(r.eng, c, "ok", <<>>, FALSE)
             ELSE Result(e, c, r.res, <<>>, FALSE)

\* remove(nodes...): in any stage; a failure on any node commits nothing.
ts_remove_nodes(e, c, nodes) ==
    LET r == RemoveEach(e, nodes, 1)
    IN  IF r.res = "ok"
        THEN Result(r.eng, c, "ok", <<>>, FALSE)
        ELSE Result(e, c, r.res, <<>>, FALSE)

\* ------------------------------------------------- static-order generator
\* The loop of static_order: get_ready, yield each node, done on the whole
\* batch, until is_active() is false.  `fuel` bounds the rounds: each round
\* of a prepared acyclic graph completes at least one node.
RECURSIVE Drain(_, _, _, _)
Drain(e, c, out, fuel) ==
    IF ~ts_is_active(e, c).flag \/ fuel = 0
    THEN Result(e, c, IF ts_is_active(e, c).flag THEN "Stalled" ELSE "ok", out, FALSE)
    ELSE LET g == ts_get_ready(e, c)
             d == ts_done(g.eng, c, g.out)
         IN  IF d.res # "ok"
             THEN Result(d.eng, c, d.res, out \o g.out, FALSE)
             ELSE Drain(d.eng, c, out \o g.out, fuel - 1)

\* static_order(): prepare once, then the loop; read here to exhaustion.
ts_static_order(e, c) ==
    LET p == ts_prepare(e, c)
    IN  IF p.res # "ok" THEN p ELSE Drain(p.eng, c, <<>>, Cardinality(Nodes) + 1)

\* ------------------------------------------------------------ fork/clone
\* The engine's copy(): a new engine object replicating the whole state of
\* the engine at `ref`, sharing no storage with it; its id factory is a new
\* object that continues from the same count.
ts_copy(ref, new) ==
    [ref |-> new,
     engines |-> (new :> [engines[ref] EXCEPT !.node_id_factory = new]) @@ engines,
     factories |-> (new :> factories[engines[ref].node_id_factory]) @@ factories]

\* ------------------------------------------------ class TopologicalSorter
Engine(self) == engines[ts[self]]

Count(self) == factories[Engine(self).node_id_factory]

\* add forwards the node alone.
add_DropPredecessors(self, node, predecessors) ==
    ts_add(Engine(self), Count(self), node, <<>>)

\* add forwards the first predecessor only.
add_FirstPredecessor(self, node, predecessors) ==
    ts_add(Engine(self), Count(self), node,
           IF predecessors = <<>> THEN predecessors ELSE <<Head(predecessors)>>)

add(self, node, predecessors) == ts_add(Engine(self), Count(self), node, predecessors)

\* get_ready asks a copy of the engine, so the engine itself never learns
\* that the batch was handed out.
get_ready_OnCopy(self) ==
    [ts_get_ready(Engine(self), Count(self)) EXCEPT !.eng = Engine(self)]

\* get_ready returns the batch sorted by id: tuple(sorted(...)).
get_ready_Sorted(self) ==
    [ts_get_ready(Engine(self), Count(self)) EXCEPT
        !.out = ById(Engine(self), Range(ts_get_ready(Engine(self), Count(self)).out))]

get_ready(self) == ts_get_ready(Engine(self), Count(self))

\* done forwards to the engine's remove_nodes.
done_AsRemove(self, nodes) == ts_remove_nodes(Engine(self), Count(self), nodes)

\* done forwards its nodes one call each: for n in nodes: self._ts.done((n,)).
done_OneByOne(self, nodes) ==
    IF Engine(self).stage # "RUNNING"
    THEN ts_done(Engine(self), Count(self), nodes)
    ELSE LET r == DoneEach(Engine(self), nodes, 1)
         IN  Result(r.eng, Count(self), r.res, <<>>, FALSE)

\* done forwards the first node only.
done_First(self, nodes) ==
    ts_done(Engine(self), Count(self), IF nodes = <<>> THEN nodes ELSE <<Head(nodes)>>)

done(self, nodes) == ts_done(Engine(self), Count(self), nodes)

\* is_active answers whether get_ready has anything to hand out.
is_active_AsGetReady(self) ==
    [ts_get_ready(Engine(self), Count(self)) EXCEPT
        !.flag = ts_get_ready(Engine(self), Count(self)).out # <<>>]

is_active(self) == ts_is_active(Engine(self), Count(self))

\* prepare forwards to the engine's is_active.
prepare_AsIsActive(self) ==
    Result(Engine(self), Count(self), "ok", <<>>, FALSE)

prepare(self) == ts_prepare(Engine(self), Count(self))

static_order(self) == ts_static_order(Engine(self), Count(self))

\* remove_nodes forwards to the engine's done.
remove_nodes_AsDone(self, nodes) == ts_done(Engine(self), Count(self), nodes)

\* remove_nodes forwards the first node only.
remove_nodes_First(self, nodes) ==
    ts_remove_nodes(Engine(self), Count(self),
                    IF nodes = <<>> THEN nodes ELSE <<Head(nodes)>>)

\* remove_nodes removes from a copy of the engine.
remove_nodes_OnCopy(self, nodes) ==
    [ts_remove_nodes(Engine(self), Count(self), nodes) EXCEPT !.eng = Engine(self)]

remove_nodes(self, nodes) == ts_remove_nodes(Engine(self), Count(self), nodes)

\* new._ts = self._ts: the new sorter holds the same engine object.
copy_Alias(self) == [ref |-> ts[self], engines |-> engines, factories |-> factories]

\* new = object.__new__(TopologicalSorter); new._ts = self._ts.copy()
copy(self) == ts_copy(ts[self], CHOOSE r \in EngineRefs : r # ts[self])

\* ---------------------------------------------------------------- state
\* How often each node of `out` was handed out, added to the tally h.
Tally(h, out) ==
    [n \in Nodes |->
        LET k == h[n] + Cardinality({i \in 1..Len(out) : out[i] = n})
        IN  IF k > 2 THEN 2 ELSE k]

\* What the caller holds after a call: the sequence get_ready or
\* static_order returned, nothing after a method that returns None, and what
\* it held before when the call raised.
Call(op, self, r) ==
    IF r.res # "ok"
    THEN last
    ELSE IF op \in {"get_ready", "static_order"}
    THEN [op |-> op, who |-> self, out |-> r.out]
    ELSE [op |-> "None", who |-> self, out |-> <<>>]

\* The engine and factory objects after a call on `self` that returned r.
Commit(self, r) ==
    /\ engines' = [engines EXCEPT ![ts[self]] = r.eng]
    /\ factories' = [factories EXCEPT ![Engine(self).node_id_factory] = r.count]

\* A method by its name, on sorter `self`, with the argument list `args`.
Invoke(op, self, args) ==
    CASE op = "add" -> add(self, Head(args), Tail(args))
      [] op = "prepare" -> prepare(self)
      [] op = "get_ready" -> get_ready(self)
      [] op = "done" -> done(self, args)
      [] op = "remove_nodes" -> remove_nodes(self, args)
      [] op = "is_active" -> is_active(self)
      [] op = "static_order" -> static_order(self)

\* What the caller sees of a call: the exception or the returned value.
Returned(op, args, r) ==
    [op |-> op, args |-> args, res |-> r.res, out |-> r.out, flag |-> r.flag]

NoCall == [op |-> "None", args |-> <<>>, res |-> "ok", out |-> <<>>, flag |-> FALSE]

\* TopologicalSorter(): graph is None, node_id_factory is a new
\* _DefaultNodeIdFactory, handed to the new engine.
Init ==
    /\ ts = ("orig" :> 1)
    /\ engines = (1 :> ts_new(1))
    /\ factories = (1 :> FactoryInit)
    /\ last = [op |-> "None", who |-> "orig", out |-> <<>>]
    /\ seen = [w \in Wrappers |->
                [added |-> {}, edges |-> {}, removed |-> {},
                 returned |-> [n \in Nodes |-> 0]]]
    /\ nadds = 0
    /\ ncalls = 0
    /\ pending = NoCall

\* Identities are opaque to the engine, so the caller's names are fixed up to
\* renaming: the identities not yet registered are first used in the order
\* of NodeOrder.
FirstUse(e, seq) ==
    \A i \in 1..Len(seq) :
        seq[i] \notin Registered(e) =>
            \A k \in 1..(IndexOf(NodeOrder, seq[i]) - 1) :
                \/ NodeOrder[k] \in Registered(e)
                \/ \E j \in 1..(i - 1) : seq[j] = NodeOrder[k]

\* An identity that was never added stands for every such identity.
OneUnknown(e, seq) ==
    \A i \in 1..Len(seq) :
        seq[i] \notin Registered(e) =>
            \A k \in 1..(IndexOf(NodeOrder, seq[i]) - 1) : NodeOrder[k] \in Registered(e)

Add(self, node, predecessors) ==
    /\ LET r == add(self, node, predecessors)
       IN  /\ Commit(self, r)
           /\ last' = Call("add", self, r)
           /\ nadds' = IF r.res = "ok" THEN nadds + 1 ELSE nadds
           /\ seen' = IF r.res # "ok" THEN seen ELSE
                [seen EXCEPT ![self].added = @ \cup {node} \cup Range(predecessors),
                             ![self].edges = @ \cup {<<p, node>> : p \in Range(predecessors)}]
    /\ UNCHANGED ts

Prepare(self) ==
    /\ LET r == prepare(self)
       IN  Commit(self, r) /\ last' = Call("prepare", self, r)
    /\ UNCHANGED <<ts, seen, nadds>>

GetReady(self) ==
    /\ LET r == get_ready(self)
       IN  /\ Commit(self, r)
           /\ last' = Call("get_ready", self, r)
           /\ seen' = IF r.res # "ok" THEN seen ELSE
                [seen EXCEPT ![self].returned = Tally(@, r.out)]
    /\ UNCHANGED <<ts, nadds>>

\* The arguments after the first one that is refused are never read: the
\* argument lists that end at the first refusal stand for all.
DoneRead(e, nodes) ==
    \A i \in 1..(Len(nodes) - 1) : DoneEach(e, SubSeq(nodes, 1, i), 1).res = "ok"

RemoveRead(e, nodes) ==
    \A i \in 1..(Len(nodes) - 1) : RemoveEach(e, SubSeq(nodes, 1, i), 1).res = "ok"

Done(self, nodes) ==
    /\ LET r == done(self, nodes)
       IN  Commit(self, r) /\ last' = Call("done", self, r)
    /\ UNCHANGED <<ts, seen, nadds>>

RemoveNodes(self, nodes) ==
    /\ LET r == remove_nodes(self, nodes)
       IN  /\ Commit(self, r)
           /\ last' = Call("remove_nodes", self, r)
           /\ seen' = IF r.res # "ok" THEN seen ELSE
                [seen EXCEPT ![self].removed = @ \cup Range(nodes)]
    /\ UNCHANGED <<ts, nadds>>

\* is_active() returns a boolean and is not recorded in `last`.
IsActive(self) ==
    /\ LET r == is_active(self)
       IN  Commit(self, r)
    /\ UNCHANGED <<ts, last, seen, nadds>>

StaticOrder(self) ==
    /\ LET r == static_order(self)
       IN  /\ Commit(self, r)
           /\ last' = Call("static_order", self, r)
           /\ seen' = IF r.res # "ok" THEN seen ELSE
                [seen EXCEPT ![self].returned = Tally(@, r.out)]
    /\ UNCHANGED <<ts, nadds>>

\* clone = orig.copy(); a previous clone is dropped.
Copy ==
    /\ LET r == copy("orig")
       IN  /\ ts' = ("clone" :> r.ref) @@ ts
           /\ engines' = r.engines
           /\ factories' = r.factories
    /\ last' = [op |-> "None", who |-> "orig", out |-> <<>>]
    /\ seen' = [seen EXCEPT !["clone"] = seen["orig"]]
    /\ UNCHANGED nadds

\* The argument lists tried in a state.  A call refused for the stage never
\* reads its arguments, so one list stands for all of them there.
AddArgs(self) ==
    IF Engine(self).stage = "BUILDING"
    THEN {a \in SeqsUpTo(Nodes, MaxPreds + 1) : Len(a) > 0 /\ FirstUse(Engine(self), a)}
    ELSE {<<NodeOrder[1]>>}

DoneArgs(self) ==
    IF Engine(self).stage = "BUILDING"
    THEN {<<NodeOrder[1]>>}
    ELSE {a \in SeqsUpTo(Nodes, MaxArgs) :
            OneUnknown(Engine(self), a) /\ DoneRead(Engine(self), a)}

RemoveArgs(self) ==
    {a \in SeqsUpTo(Nodes, MaxArgs) :
        OneUnknown(Engine(self), a) /\ RemoveRead(Engine(self), a)}

\* The calls a caller may make on sorter `self`, `adds` bounding its add
\* calls.
AddCall(self, adds) ==
    /\ self \in DOMAIN ts
    /\ Engine(self).stage = "BUILDING" => nadds < adds
    /\ \E a \in AddArgs(self) : Add(self, Head(a), Tail(a))

PrepareCall(self) == self \in DOMAIN ts /\ Prepare(self)

GetReadyCall(self) == self \in DOMAIN ts /\ GetReady(self)

DoneCall(self) == self \in DOMAIN ts /\ \E nodes \in DoneArgs(self) : Done(self, nodes)

RemoveCall(self) ==
    self \in DOMAIN ts /\ \E nodes \in RemoveArgs(self) : RemoveNodes(self, nodes)

IsActiveCall(self) == self \in DOMAIN ts /\ IsActive(self)

StaticOrderCall(self) == self \in DOMAIN ts /\ StaticOrder(self)

CopyCall == "clone" \notin DOMAIN ts /\ Copy

\* A step of a run that does not count its calls.
Uncounted(A) == A /\ UNCHANGED <<ncalls, pending>>

\* A step of a run of at most MaxCalls calls that change something.
Counted(A) ==
    /\ ncalls < MaxCalls
    /\ A
    /\ ncalls' = IF prog' # prog THEN ncalls + 1 ELSE ncalls
    /\ UNCHANGED pending

\* One sorter, driven by one caller.
Next ==
    \/ Uncounted(AddCall("orig", MaxAdds))
    \/ Uncounted(PrepareCall("orig"))
    \/ Uncounted(GetReadyCall("orig"))
    \/ Uncounted(DoneCall("orig"))
    \/ Uncounted(RemoveCall("orig"))
    \/ Uncounted(IsActiveCall("orig"))
    \/ Uncounted(StaticOrderCall("orig"))

Spec == Init /\ [][Next]_vars

\* Two sorters: the original and a clone taken from it at any moment, each
\* driven independently.
NextCopy ==
    \/ Counted(CopyCall)
    \/ \E self \in Wrappers :
        \/ Counted(AddCall(self, MaxForkAdds))
        \/ Counted(PrepareCall(self))
        \/ Counted(GetReadyCall(self))
        \/ Counted(DoneCall(self))
        \/ Counted(RemoveCall(self))
        \/ Counted(IsActiveCall(self))
        \/ Counted(StaticOrderCall(self))

SpecCopy == Init /\ [][NextCopy]_vars

\* A call on the original; once the clone exists the same call is owed to
\* the clone.
Lead(op, args, A) ==
    /\ pending = NoCall
    /\ ncalls < MaxCalls
    /\ A
    /\ ncalls' = IF prog' # prog THEN ncalls + 1 ELSE ncalls
    /\ pending' = IF "clone" \in DOMAIN ts
                  THEN Returned(op, args, Invoke(op, "orig", args))
                  ELSE NoCall

LeadAdd ==
    /\ Engine("orig").stage = "BUILDING" => nadds < MaxForkAdds
    /\ \E a \in AddArgs("orig") : Lead("add", a, Add("orig", Head(a), Tail(a)))

LeadPrepare == Lead("prepare", <<>>, Prepare("orig"))

LeadGetReady == Lead("get_ready", <<>>, GetReady("orig"))

LeadDone == \E nodes \in DoneArgs("orig") : Lead("done", nodes, Done("orig", nodes))

LeadRemove ==
    \E nodes \in RemoveArgs("orig") : Lead("remove_nodes", nodes, RemoveNodes("orig", nodes))

LeadIsActive == Lead("is_active", <<>>, IsActive("orig"))

LeadStaticOrder == Lead("static_order", <<>>, StaticOrder("orig"))

ForkCopy == pending = NoCall /\ CopyCall /\ UNCHANGED <<ncalls, pending>>

\* The clone is given the call the original was given.
Follow(op, A) ==
    /\ pending.op = op
    /\ A
    /\ pending' = NoCall
    /\ UNCHANGED ncalls

FollowAdd == Follow("add", Add("clone", Head(pending.args), Tail(pending.args)))

FollowPrepare == Follow("prepare", Prepare("clone"))

FollowGetReady == Follow("get_ready", GetReady("clone"))

FollowDone == Follow("done", Done("clone", pending.args))

FollowRemove == Follow("remove_nodes", RemoveNodes("clone", pending.args))

FollowIsActive == Follow("is_active", IsActive("clone"))

FollowStaticOrder == Follow("static_order", StaticOrder("clone"))

\* The original, a clone taken from it at any moment, and from then on every
\* call made on the original made on the clone as well.
NextFork ==
    \/ LeadAdd
    \/ LeadPrepare
    \/ LeadGetReady
    \/ LeadDone
    \/ LeadRemove
    \/ LeadIsActive
    \/ LeadStaticOrder
    \/ ForkCopy
    \/ FollowAdd
    \/ FollowPrepare
    \/ FollowGetReady
    \/ FollowDone
    \/ FollowRemove
    \/ FollowIsActive
    \/ FollowStaticOrder

SpecFork == Init /\ [][NextFork]_vars

\* Some node has been handed out and not yet reported done.
Processing(self) == {n \in Nodes : Engine(self).state[n] = "PROCESSING"}

\* The consumer of static_order's loop, written out call by call: the graph
\* is built (nodes may be removed), prepare is called, then get_ready and
\* done on the whole batch take turns until is_active() is false.
DrainBuild ==
    /\ Engine("orig").stage = "BUILDING"
    /\ Uncounted(AddCall("orig", MaxAdds)) \/ Uncounted(RemoveCall("orig"))

DrainPrepare == Uncounted(PrepareCall("orig"))

DrainGetReady ==
    /\ Engine("orig").stage = "RUNNING"
    /\ is_active("orig").flag
    /\ Processing("orig") = {}
    /\ Uncounted(GetReadyCall("orig"))

DrainDone ==
    /\ Processing("orig") # {}
    /\ last.op = "get_ready"
    /\ Uncounted(Done("orig", last.out))

NextDrain == DrainBuild \/ DrainPrepare \/ DrainGetReady \/ DrainDone

\* The consumer keeps calling: a round that can be made is made.
SpecDrain ==
    Init /\ [][NextDrain]_vars /\ WF_vars(DrainGetReady) /\ WF_vars(DrainDone)

\* One sorter that is built with up to MaxQueueAdds add calls, prepared and
\* worked through with get_ready and done; no node is removed.
NextQueue ==
    \/ Uncounted(AddCall("orig", MaxQueueAdds))
    \/ Uncounted(PrepareCall("orig"))
    \/ Uncounted(GetReadyCall("orig"))
    \/ Uncounted(DoneCall("orig"))

SpecQueue == Init /\ [][NextQueue]_vars

\* =============================================================== claims
\* The edges the caller of `self` added that still count: both ends added
\* and not removed.
LiveEdges(self) ==
    {d \in seen[self].edges : d[1] \notin seen[self].removed /\ d[2] \notin seen[self].removed}

\* A set of edges has a cycle iff some non-empty set of nodes has, for each of
\* its nodes, a predecessor in the set.
HasCycle(edges) ==
    \E S \in SUBSET Nodes :
        S # {} /\ \A n \in S : \E m \in S : <<m, n>> \in edges

Kept(self) == seen[self].added \ seen[self].removed

ArgLists == SeqsUpTo(Nodes, MaxArgs) \ {<<>>}

\* C1: static_order on an acyclic graph returns, and what it yields is each
\* added, non-removed node exactly once and no other node, every predecessor
\* strictly before the node it was added as a predecessor of.
C1_StaticOrderTopological ==
    /\ Engine("orig").stage = "BUILDING" /\ ~HasCycle(LiveEdges("orig"))
            => static_order("orig").res = "ok"
    /\ last.op = "static_order" =>
            /\ Range(last.out) = Kept("orig")
            /\ Len(last.out) = Cardinality(Kept("orig"))
            /\ \A d \in LiveEdges("orig") :
                    IndexOf(last.out, d[1]) < IndexOf(last.out, d[2])

\* static_order has yielded three nodes, one of them after its two
\* predecessors, one of which had a predecessor of its own.
C1_Witness ==
    /\ last.op = "static_order"
    /\ Len(last.out) = 3
    /\ \E n, m, k \in Nodes :
            /\ Cardinality({n, m, k}) = 3
            /\ {<<m, n>>, <<k, n>>, <<k, m>>} \subseteq seen["orig"].edges
            /\ last.out = <<k, m, n>>

\* A reported cycle: first and last equal, every consecutive pair an added
\* edge.
IsCycleOf(self, c) ==
    /\ Len(c) >= 2
    /\ c[1] = c[Len(c)]
    /\ \A i \in 1..(Len(c) - 1) : <<c[i], c[i + 1]>> \in seen[self].edges

\* C2: prepare on a graph with a cycle (a self-loop included) fails with a
\* cycle error whose sequence is a cycle of the added edges.
C2_CycleReported ==
    Engine("orig").stage = "BUILDING" /\ HasCycle(LiveEdges("orig")) =>
        /\ prepare("orig").res = "CycleError"
        /\ IsCycleOf("orig", prepare("orig").out)

\* A graph with a two-node cycle and no self-loop, reported as (x, y, x).
C2_Witness ==
    /\ Engine("orig").stage = "BUILDING"
    /\ \A n \in Nodes : <<n, n>> \notin seen["orig"].edges
    /\ prepare("orig").res = "CycleError"
    /\ Len(prepare("orig").out) = 3

\* C3: done fails whenever one of its nodes is not PROCESSING: never handed
\* out, already done, removed, or never added.
C3_DoneOnlyProcessing ==
    \A nodes \in ArgLists :
        (\E i \in 1..Len(nodes) : Engine("orig").state[nodes[i]] # "PROCESSING")
            => done("orig", nodes).res # "ok"

\* A done node and a removed node, each refused by done, beside a PROCESSING
\* node that done accepts.
C3_Witness ==
    /\ \E n \in Nodes :
            Engine("orig").state[n] = "DONE" /\ done("orig", <<n>>).res = "ProtocolMisuse"
    /\ \E n \in Nodes :
            Engine("orig").state[n] = "REMOVED" /\ done("orig", <<n>>).res = "ProtocolMisuse"
    /\ \E n \in Nodes :
            Engine("orig").state[n] = "PROCESSING" /\ done("orig", <<n>>).res = "ok"

\* C4: no node is handed out twice, in one batch or in two, and get_ready
\* hands out only nodes that are READY, never PROCESSING or DONE ones.
C4_HandedOutOnce ==
    /\ \A n \in Nodes : seen["orig"].returned[n] <= 1
    /\ \A n \in Range(get_ready("orig").out) : Engine("orig").state[n] = "READY"

\* A second non-empty batch, after a node of the first was done.
C4_Witness ==
    /\ last.op = "get_ready" /\ last.out # <<>>
    /\ \E n \in Nodes : Engine("orig").state[n] = "DONE" /\ seen["orig"].returned[n] = 1
    /\ \A n \in Range(last.out) : seen["orig"].returned[n] = 1

\* What a caller can observe of a sorter: the whole of its engine (node
\* states, indegrees, edges, ready queue, stage, the ids given so far) and the
\* id its factory gives next.  Which factory object it is cannot be observed.
Observables(self) == <<[Engine(self) EXCEPT !.node_id_factory = 0], Count(self)>>

C6_CloneSameOrder ==
    "clone" \in DOMAIN ts =>
        IF pending # NoCall
        THEN Returned(pending.op, pending.args,
                      Invoke(pending.op, "clone", pending.args)) = pending
        ELSE /\ get_ready("clone").res = get_ready("orig").res
             /\ get_ready("clone").out = get_ready("orig").out
             /\ is_active("clone").flag = is_active("orig").flag
             /\ \A n \in Nodes : Engine("orig").state[n] = "PROCESSING" =>
                    /\ Engine("clone").state[n] = "PROCESSING"
                    /\ done("clone", <<n>>).res = "ok"

\* The copy was taken while a node was PROCESSING; the original has reported
\* it done, which released its next batch, and the clone is about to be told.
C6_Witness ==
    /\ "clone" \in DOMAIN ts
    /\ pending.op = "done" /\ pending.res = "ok"
    /\ \E n \in Range(pending.args) :
            Engine("orig").state[n] = "DONE" /\ Engine("clone").state[n] = "PROCESSING"
    /\ get_ready("orig").out # <<>>

\* C7: a removed node is never handed out, by get_ready or by static_order,
\* before or after; and removing a NEW or READY node succeeds and lowers the
\* indegree of each node it was added as a predecessor of by exactly one and
\* of no other node, a successor left with indegree 0 being READY and queued
\* (at once while RUNNING, by prepare while BUILDING).
C7_RemoveNode ==
    /\ \A n \in seen["orig"].removed :
            /\ seen["orig"].returned[n] = 0
            /\ n \notin Range(get_ready("orig").out)
            /\ static_order("orig").res = "ok" => n \notin Range(static_order("orig").out)
    /\ \A n \in Nodes : Engine("orig").state[n] \in {"NEW", "READY"} =>
            LET r == remove_nodes("orig", <<n>>)
                p == ts_prepare(r.eng, r.count)
            IN  /\ r.res = "ok"
                /\ r.eng.state[n] = "REMOVED"
                /\ n \notin Range(r.eng.ready)
                /\ \A s \in Nodes :
                      /\ r.eng.indegree[s] = Engine("orig").indegree[s]
                            - (IF <<n, s>> \in seen["orig"].edges THEN 1 ELSE 0)
                      /\ <<n, s>> \in seen["orig"].edges /\ s # n /\ r.eng.indegree[s] = 0
                            /\ Engine("orig").state[s] = "NEW" =>
                            IF r.eng.stage = "RUNNING"
                            THEN r.eng.state[s] = "READY" /\ s \in Range(r.eng.ready)
                            ELSE p.res = "ok" => s \in Range(p.eng.ready)

\* A node was removed while the sorter was RUNNING, and the node that had it
\* as its only predecessor came out in the batch after.
C7_Witness ==
    /\ last.op = "get_ready"
    /\ \E n \in seen["orig"].removed : \E s \in Range(last.out) :
            /\ Engine("orig").preds[s] = {n}
            /\ seen["orig"].returned[s] = 1
            /\ \E m \in Nodes : Engine("orig").state[m] = "DONE"

\* The argument lists of add: the node and its predecessors.
AddLists == SeqsUpTo(Nodes, MaxPreds + 1) \ {<<>>}

\* A call that raised left the engine and the id factory as they were.
Untouched(r) == r.res # "ok" => r.eng = Engine("orig") /\ r.count = Count("orig")

\* C8: in every reachable state, every call that fails (add, prepare,
\* get_ready, static_order, done and remove_nodes on any argument list)
\* leaves the engine exactly as it was: no node marked, no indegree lowered,
\* the ready queue unchanged.
C8_FailureChangesNothing ==
    /\ \A a \in AddLists : Untouched(add("orig", Head(a), Tail(a)))
    /\ Untouched(prepare("orig"))
    /\ Untouched(get_ready("orig"))
    /\ Untouched(static_order("orig"))
    /\ \A nodes \in SeqsUpTo(Nodes, MaxArgs) :
            Untouched(done("orig", nodes)) /\ Untouched(remove_nodes("orig", nodes))

\* A done and a remove_nodes of two nodes each, the first node valid alone,
\* the second not: both calls fail.
C8_Witness ==
    \E a, b \in Nodes :
        /\ Engine("orig").state[a] = "PROCESSING" /\ Engine("orig").state[b] = "NEW"
        /\ a \in Engine("orig").preds[b]
        /\ done("orig", <<a>>).res = "ok" /\ done("orig", <<a, b>>).res = "ProtocolMisuse"
        /\ remove_nodes("orig", <<b>>).res = "ok"
        /\ remove_nodes("orig", <<b, a>>).res = "ProtocolMisuse"

\* The live edges once the nodes of `nodes` are removed too.
LiveEdgesWithout(self, nodes) ==
    {d \in LiveEdges(self) : d[1] \notin Range(nodes) /\ d[2] \notin Range(nodes)}

\* C9: a prepare that fails with a cycle error leaves the sorter BUILDING
\* and unchanged, no node READY; add is still accepted and get_ready still
\* refused as not prepared; and once nodes are removed so that no cycle is
\* left, prepare succeeds.
C9_CycleErrorKeepsBuilding ==
    Engine("orig").stage = "BUILDING" /\ prepare("orig").res = "CycleError" =>
        /\ prepare("orig").eng = Engine("orig")
        /\ prepare("orig").eng.stage = "BUILDING"
        /\ \A n \in Nodes : prepare("orig").eng.state[n] # "READY"
        /\ prepare("orig").eng.ready = <<>>
        /\ \A a \in AddLists : add("orig", Head(a), Tail(a)).res = "ok"
        /\ get_ready("orig").res = "ProtocolMisuse"
        /\ \A nodes \in ArgLists :
                LET r == remove_nodes("orig", nodes)
                IN  r.res = "ok" /\ ~HasCycle(LiveEdgesWithout("orig", nodes)) =>
                        ts_prepare(r.eng, r.count).res = "ok"

\* A sorter still BUILDING whose graph had a two-node cycle; one node of the
\* cycle was removed and prepare now succeeds.
C9_Witness ==
    /\ Engine("orig").stage = "BUILDING"
    /\ \E n \in seen["orig"].removed : \E m \in Kept("orig") :
            {<<n, m>>, <<m, n>>} \subseteq seen["orig"].edges
    /\ prepare("orig").res = "ok"

\* C10: once prepare has succeeded add and prepare are refused; before it
\* has, get_ready and done are refused; and none of the refused calls
\* changes anything.
C10_StageGating ==
    IF Engine("orig").stage # "BUILDING"
    THEN /\ \A a \in AddLists :
                /\ add("orig", Head(a), Tail(a)).res = "ProtocolMisuse"
                /\ Untouched(add("orig", Head(a), Tail(a)))
         /\ prepare("orig").res = "ProtocolMisuse"
         /\ Untouched(prepare("orig"))
    ELSE /\ get_ready("orig").res = "ProtocolMisuse"
         /\ Untouched(get_ready("orig"))
         /\ \A nodes \in SeqsUpTo(Nodes, MaxArgs) :
                /\ done("orig", nodes).res = "ProtocolMisuse"
                /\ Untouched(done("orig", nodes))

\* The sorter is past prepare, one node done and one still waiting, and add
\* and a second prepare are refused.
C10_Witness ==
    /\ Engine("orig").stage = "RUNNING"
    /\ \E n, m \in Nodes : Engine("orig").state[n] = "DONE" /\ Engine("orig").state[m] = "READY"
    /\ add("orig", NodeOrder[1], <<>>).res = "ProtocolMisuse"
    /\ prepare("orig").res = "ProtocolMisuse"

Distinct(nodes) == Cardinality(Range(nodes)) = Len(nodes)

C12_RemoveWhenNewOrReady ==
    \A n \in Nodes :
        LET r == remove_nodes("orig", <<n>>)
        IN  IF Engine("orig").state[n] \in {"NEW", "READY"}
            THEN /\ r.res = "ok"
                 /\ r.eng.state[n] = "REMOVED"
                 /\ n \notin Range(r.eng.ready)
                 /\ Engine("orig").state[n] = "READY" =>
                        /\ n \in Range(Engine("orig").ready)
                        /\ \A m \in Range(Engine("orig").ready) \ {n} :
                                m \in Range(r.eng.ready)
            ELSE r.res # "ok" /\ r.eng = Engine("orig")

\* add(X, Y, Z), remove(Y), prepare, get_ready -> (Z), done(Z),
\* get_ready -> (X): the end of that run.
C12_Witness ==
    /\ last.op = "get_ready"
    /\ \E x, y, z \in Nodes :
            /\ seen["orig"].edges = {<<y, x>>, <<z, x>>}
            /\ Engine("orig").node2id[x] < Engine("orig").node2id[y]
            /\ Engine("orig").node2id[y] < Engine("orig").node2id[z]
            /\ seen["orig"].removed = {y}
            /\ Engine("orig").state[z] = "DONE"
            /\ last.out = <<x>>
            /\ remove_nodes("orig", <<x>>).res = "ProtocolMisuse"

\* C13: once prepare has succeeded, is_active() is true iff some added node
\* is NEW, READY or PROCESSING, false iff every added node is DONE or
\* REMOVED (so false for a graph with no nodes), and it changes nothing.
C13_IsActive ==
    Engine("orig").stage # "BUILDING" =>
        /\ is_active("orig").res = "ok"
        /\ is_active("orig").flag =
                (\E n \in seen["orig"].added :
                    Engine("orig").state[n] \in {"NEW", "READY", "PROCESSING"})
        /\ ~is_active("orig").flag =
                (\A n \in seen["orig"].added :
                    Engine("orig").state[n] \in {"DONE", "REMOVED"})
        /\ is_active("orig").eng = Engine("orig")

\* After prepare: a node done, a node removed, none left, is_active() false.
C13_Witness ==
    /\ Engine("orig").stage = "RUNNING"
    /\ \E n, m \in seen["orig"].added :
            /\ Engine("orig").state[n] = "DONE"
            /\ Engine("orig").state[m] = "REMOVED" /\ m \in Engine("orig").preds[n]
    /\ ~is_active("orig").flag

\* C14: on an acyclic graph the consumer that calls get_ready and then done
\* on the whole batch gets a non-empty batch whenever is_active() is true
\* and no node is PROCESSING, reaches is_active() false, and then every
\* added node that was not removed is DONE.
C14_DrainTerminates ==
    /\ [](Engine("orig").stage = "RUNNING" /\ is_active("orig").flag
            /\ Processing("orig") = {} => get_ready("orig").out # <<>>)
    /\ [](Engine("orig").stage = "RUNNING" => <>(~is_active("orig").flag))
    /\ [](Engine("orig").stage = "RUNNING" /\ ~is_active("orig").flag =>
            \A n \in Kept("orig") : Engine("orig").state[n] = "DONE")

\* A drain of three rounds has ended: a chain of three nodes, all DONE.
C14_Witness ==
    /\ Engine("orig").stage = "RUNNING"
    /\ ~is_active("orig").flag
    /\ \E n, m, k \in Nodes :
            /\ {<<n, m>>, <<m, k>>} \subseteq seen["orig"].edges
            /\ \A x \in {n, m, k} : Engine("orig").state[x] = "DONE" /\ seen["orig"].returned[x] = 1

\* The engine after the nodes from the i-th on are reported done one call
\* each, in the order of `nodes`.
RECURSIVE DoneInTurn(_, _, _, _)
DoneInTurn(e, c, nodes, i) ==
    IF i > Len(nodes)
    THEN e
    ELSE DoneInTurn(ts_done(e, c, <<nodes[i]>>).eng, c, nodes, i + 1)

\* The orders in which the nodes of `nodes` can be named.
Orders(nodes) ==
    {o \in [1..Len(nodes) -> Range(nodes)] : Range(o) = Range(nodes)}

\* Two engines alike in everything but the order of the ready queue.
SameButQueueOrder(e, f) ==
    /\ [e EXCEPT !.ready = <<>>] = [f EXCEPT !.ready = <<>>]
    /\ Range(e.ready) = Range(f.ready)
    /\ Len(e.ready) = Len(f.ready)

\* C15: for nodes that are PROCESSING, one done call naming them in any
\* order, and one done call per node in any order, all succeed and end in
\* the same node states, the same indegrees and the same set of READY
\* nodes; only the order of the ready queue may differ.
C15_DoneOrderFree ==
    \A nodes \in ArgLists :
        Distinct(nodes) /\ Range(nodes) \subseteq Processing("orig") =>
            \A o \in Orders(nodes) :
                /\ done("orig", o).res = "ok"
                /\ SameButQueueOrder(done("orig", o).eng, done("orig", nodes).eng)
                /\ SameButQueueOrder(
                        DoneInTurn(done("orig", <<Head(o)>>).eng, Count("orig"), o, 2),
                        done("orig", nodes).eng)

\* Two nodes of one batch are PROCESSING and a third waits for both: it is
\* READY once both are reported, in either order, not after one.
C15_Witness ==
    \E a, b, x \in Nodes :
        /\ a # b
        /\ last.op = "get_ready" /\ {a, b} \subseteq Range(last.out)
        /\ {a, b} \subseteq Processing("orig")
        /\ Engine("orig").preds[x] = {a, b}
        /\ done("orig", <<a>>).eng.state[x] = "NEW"
        /\ done("orig", <<a, b>>).eng.ready = <<x>>
        /\ done("orig", <<b, a>>).eng.ready = <<x>>

\* The predecessors the caller gave node n, over all its add calls.
GivenPreds(self, n) == {p \in Nodes : <<p, n>> \in seen[self].edges}

\* C16: in every reachable state the indegree of each node is the number of
\* the distinct predecessors it was given that are neither DONE nor REMOVED;
\* so it is never negative and no predecessor is discounted twice.
C16_IndegreeCountsLivePreds ==
    \A n \in Nodes :
        /\ Engine("orig").indegree[n] =
                Cardinality({p \in GivenPreds("orig", n) :
                                Engine("orig").state[p] \notin {"DONE", "REMOVED"}})
        /\ Engine("orig").indegree[n] >= 0

\* A node given two predecessors, one DONE and one REMOVED, its indegree 0;
\* and a node still waiting for one of its two predecessors.
C16_Witness ==
    /\ \E n \in Nodes :
            /\ Cardinality(GivenPreds("orig", n)) = 2
            /\ \E p \in GivenPreds("orig", n) : Engine("orig").state[p] = "DONE"
            /\ \E p \in GivenPreds("orig", n) : Engine("orig").state[p] = "REMOVED"
            /\ Engine("orig").indegree[n] = 0
            /\ Engine("orig").state[n] \in {"READY", "PROCESSING"}

\* In the ready queue iff READY.
QueuedIffReady(e) ==
    \A n \in Registered(e) : n \in Range(e.ready) <=> e.state[n] = "READY"

\* C17 as stated: at every observable point a node is in the ready queue iff
\* it is READY, and it is READY iff its indegree is 0 and get_ready has not
\* returned it.
C17_ReadyIffZeroIndegree ==
    /\ QueuedIffReady(Engine("orig"))
    /\ \A n \in seen["orig"].added :
            Engine("orig").state[n] = "READY" <=>
                Engine("orig").indegree[n] = 0 /\ seen["orig"].returned[n] = 0

\* C17 as amended: at every observable point a node is in the ready queue
\* iff it is READY; once prepare has succeeded, a node that was not removed
\* is READY iff its indegree is 0 and get_ready has not returned it; before
\* that no node is READY.
C17_ReadyQueue ==
    /\ QueuedIffReady(Engine("orig"))
    /\ Distinct(Engine("orig").ready)
    /\ IF Engine("orig").stage = "BUILDING"
       THEN \A n \in Nodes : Engine("orig").state[n] # "READY"
       ELSE \A n \in Kept("orig") :
                Engine("orig").state[n] = "READY" <=>
                    Engine("orig").indegree[n] = 0 /\ seen["orig"].returned[n] = 0

\* After prepare: a READY node in the queue, not yet returned; a PROCESSING
\* node, returned, out of the queue; the node whose completion released the
\* READY one.
C17_Witness ==
    /\ Engine("orig").stage = "RUNNING"
    /\ \E n, m, k \in Nodes :
            /\ Engine("orig").state[n] = "READY" /\ Engine("orig").ready = <<n>>
            /\ Engine("orig").indegree[n] = 0 /\ seen["orig"].returned[n] = 0
            /\ Engine("orig").state[m] = "PROCESSING" /\ seen["orig"].returned[m] = 1
            /\ Engine("orig").state[k] = "DONE" /\ k \in GivenPreds("orig", n)

\* How often x occurs in the sequence s.
Occurrences(s, x) == Cardinality({i \in 1..Len(s) : s[i] = x})

\* C18: add accumulates predecessors as a set.  While the graph is built a
\* node's predecessor set is the union of the predecessors given in all its
\* add calls and the node occurs exactly once in the successor list of each;
\* one more add call adds its predecessors to the set, raises the indegree
\* by one for each predecessor that is new to the set (named twice or not)
\* and still counts, and leaves every first-seen node NEW.
C18_AddAccumulates ==
    Engine("orig").stage = "BUILDING" =>
        /\ \A n \in Nodes :
                /\ Engine("orig").preds[n] = GivenPreds("orig", n)
                /\ seen["orig"].removed = {} =>
                        Engine("orig").indegree[n] = Cardinality(GivenPreds("orig", n))
                /\ \A p \in Nodes :
                        Occurrences(Engine("orig").successors[p], n) =
                            IF p \in GivenPreds("orig", n) THEN 1 ELSE 0
        /\ \A a \in AddLists :
                LET r == add("orig", Head(a), Tail(a))
                    n == Head(a)
                    fresh == Range(Tail(a)) \ Engine("orig").preds[n]
                IN  /\ r.res = "ok"
                    /\ r.eng.preds[n] = Engine("orig").preds[n] \cup Range(Tail(a))
                    /\ r.eng.indegree[n] = Engine("orig").indegree[n]
                            + Cardinality({p \in fresh : Engine("orig").state[p] # "REMOVED"})
                    /\ \A p \in r.eng.preds[n] : Occurrences(r.eng.successors[p], n) = 1
                    /\ \A x \in Range(a) \ Registered(Engine("orig")) :
                            r.eng.state[x] = "NEW"
                    /\ \A x \in Nodes \ {n} :
                            r.eng.preds[x] = Engine("orig").preds[x]
                            /\ r.eng.indegree[x] = Engine("orig").indegree[x]

\* A node with one predecessor is added again, naming a second predecessor
\* twice and the first once more: two predecessors, indegree 2.
C18_Witness ==
    /\ Engine("orig").stage = "BUILDING"
    /\ nadds = 2
    /\ \E n, p, q \in Nodes :
            /\ p # q
            /\ Engine("orig").preds[n] = {p, q} /\ Engine("orig").indegree[n] = 2
            /\ add("orig", n, <<q, q>>).eng = Engine("orig")
            /\ add("orig", n, <<p, q>>).eng = Engine("orig")

\* The sequence s is in strictly ascending id order.
AscendingIds(e, s) ==
    \A i, j \in 1..Len(s) : i < j => e.node2id[s[i]] < e.node2id[s[j]]

\* What one done(n) appends to the ready queue.
Released(self, n) ==
    SubSeq(done(self, <<n>>).eng.ready,
           Len(Engine(self).ready) + 1, Len(done(self, <<n>>).eng.ready))

Ids(e) == {e.node2id[n] : n \in Registered(e)}

\* The argument lists of get_ids.
IdLists == SeqsUpTo(Nodes, MaxArgs)

\* C20, in every state and for every sorter: the ids given out are
\* 0, 1, 2, ... without gap or duplicate, one factory call per identity, in
\* first-seen order (callers use new identities in the order of NodeOrder,
\* the node of an add call before its predecessors, so the i-th identity of
\* NodeOrder has id i - 1); get_ids returns the ids, changes nothing, and
\* fails when an identity was never added.
IdsAssignedOnce(self) ==
    LET e == Engine(self)
    IN  /\ Ids(e) = 0..(Cardinality(Registered(e)) - 1)
        /\ Count(self) = Cardinality(Registered(e))
        /\ Registered(e) = seen[self].added
        /\ \A n \in Registered(e) : e.node2id[n] = IndexOf(NodeOrder, n) - 1
        /\ \A nodes \in IdLists :
                LET g == ts_get_ids(e, Count(self), nodes)
                IN  /\ g.eng = e /\ g.count = Count(self)
                    /\ g.res # "ok" <=> Range(nodes) \ seen[self].added # {}
                    /\ g.res = "ok" =>
                            /\ Len(g.out) = Len(nodes)
                            /\ \A i \in 1..Len(nodes) : g.out[i] = e.node2id[nodes[i]]

\* C20, over every step: an identity keeps its id for the whole life of the
\* engine, also once REMOVED; a new identity gets an id above all earlier
\* ones; and a fork starts with the ids of the sorter it was copied from.
IdsStable ==
    \A w \in DOMAIN ts' :
        IF w \in DOMAIN ts
        THEN /\ \A n \in Registered(Engine(w)) :
                    /\ n \in Registered(Engine(w)')
                    /\ Engine(w)'.node2id[n] = Engine(w).node2id[n]
             /\ \A n \in Registered(Engine(w)') \ Registered(Engine(w)) :
                    \A m \in Registered(Engine(w)) :
                        Engine(w)'.node2id[n] > Engine(w).node2id[m]
        ELSE Engine(w)'.node2id = Engine("orig").node2id

====
